---- MODULE Spec2Model ----
(***************************************************************************)
(* Model of src/graph_frame.rs (pregel-rs): the GraphFrame value type, its  *)
(* validated construction (new, from_edges), the two degree aggregations    *)
(* and its Display implementation.                                          *)
(*                                                                          *)
(* A DataFrame is a record [cols, rows]: cols is the sequence of columns    *)
(* (name and data type), rows the sequence of rows, each row a sequence of  *)
(* values aligned with cols.  A LazyFrame is a query plan: a tree of        *)
(* records whose leaves scan a DataFrame.  Materialising a plan (collect)   *)
(* evaluates the tree; the operations the engine leaves unordered (unique,  *)
(* groupby) may return their rows in any order, so collect is modelled by   *)
(* the set of its possible outcomes.                                        *)
(***************************************************************************)
EXTENDS Integers, Sequences, FiniteSets

\* ------------------------------------------------------------------ bounds
MaxRows == 2    \* most rows of an edge table
MaxVRows == 1   \* most rows of a vertex table
NumIds == 3     \* vertex identifiers are 1..NumIds

\* --------------------------------------------------------- column names
ID == "id"
SRC == "src"
DST == "dst"
EDGE == "edge"
MSG == "msg"

\* ------------------------------------------------------------ DataFrames
Ids == 1..NumIds
Column(n, t) == [name |-> n, dtype |-> t]

DataFrame(cols, rows) == [cols |-> cols, rows |-> rows]

EmptyFrame == DataFrame(<<>>, <<>>)

\* All sequences over S of length at most n.
SeqsUpTo(S, n) == UNION {[1..k -> S] : k \in 0..n}

\* All tables with the given columns (names and data types), at most n rows.
Tables(cols, n) ==
    {DataFrame(cols, rows) : rows \in SeqsUpTo([1..Len(cols) -> Ids], n)}

\* Vertex tables: with an id column, or with another column only.
VertexTables ==
    Tables(<<Column(ID, "Int")>>, MaxVRows)
        \cup Tables(<<Column("name", "Int")>>, MaxVRows)

\* Edge tables: with src and dst (of one data type, or of two), or lacking
\* one of them, or both.
EdgeTables ==
    Tables(<<Column(SRC, "Int"), Column(DST, "Int")>>, MaxRows)
        \cup Tables(<<Column(SRC, "Int"), Column(DST, "Str")>>, MaxRows)
        \cup Tables(<<Column(SRC, "Int")>>, MaxRows)
        \cup Tables(<<Column(DST, "Int")>>, MaxRows)
        \cup Tables(<<Column(EDGE, "Int")>>, MaxRows)

get_column_names(df) == [i \in 1..Len(df.cols) |-> df.cols[i].name]

contains(names, c) == \E i \in 1..Len(names) : names[i] = c

IndexOf(df, c) == CHOOSE i \in 1..Len(df.cols) : df.cols[i].name = c

\* The values of column c, in row order.
ColumnValues(df, c) == [r \in 1..Len(df.rows) |-> df.rows[r][IndexOf(df, c)]]

Range(s) == {s[i] : i \in 1..Len(s)}

\* Number of positions of s holding x.
Count(s, x) == Cardinality({i \in 1..Len(s) : s[i] = x})

\* The sequence s without its i-th element.
Without(s, i) == [j \in 1..(Len(s) - 1) |-> IF j < i THEN s[j] ELSE s[j + 1]]

\* All orderings of the rows of a sequence.
RECURSIVE Orderings(_)
Orderings(s) ==
    IF Len(s) = 0
    THEN {<<>>}
    ELSE UNION {{<<s[i]>> \o t : t \in Orderings(Without(s, i))} : i \in 1..Len(s)}

\* ------------------------------------------------- the query engine's plans
\* PolarsError: the engine's failure, with the column it is about.
PolarsError(kind, c) == [kind |-> kind, column |-> c]

NoError == PolarsError("none", "")

\* PolarsResult<DataFrame>
Ok(df) == [ok |-> TRUE, df |-> df, err |-> NoError]

Failed(e) == [ok |-> FALSE, df |-> EmptyFrame, err |-> e]

\* col(c).alias(a); col(c) alone keeps the column's name.
col_alias(c, a) == [column |-> c, alias |-> a]

col(c) == col_alias(c, c)

\* count().alias(a)
count_alias(a) == [agg |-> "count", alias |-> a]

\* DataFrame::lazy: the plan that scans the table.
lazy(df) == [op |-> "scan", df |-> df]

select(lf, exprs) == [op |-> "select", input |-> lf, exprs |-> exprs]

unique(lf, subset, keep) ==
    [op |-> "unique", input |-> lf, subset |-> subset, keep |-> keep]

groupby_agg(lf, by, aggs) ==
    [op |-> "groupby", input |-> lf, by |-> by, aggs |-> aggs]

\* concat(inputs, rechunk, parallel): PolarsResult<LazyFrame>, an error for
\* no inputs and the union plan otherwise.
concat(inputs, rechunk, parallel) ==
    IF Len(inputs) = 0
    THEN [ok |-> FALSE, lf |-> lazy(EmptyFrame), err |-> PolarsError("NoData", "")]
    ELSE [ok |-> TRUE,
          lf |-> [op |-> "concat", inputs |-> inputs, rechunk |-> rechunk,
                  parallel |-> parallel],
          err |-> NoError]

\* ------------------------------------------- evaluation of one plan node
Missing(df, cs) == {i \in 1..Len(cs) : ~contains(get_column_names(df), cs[i])}

Min(S) == CHOOSE x \in S : \A y \in S : x <= y

\* Projection: each expression takes one column and names it by its alias;
\* a column the table lacks is the engine's ColumnNotFound.
EvalSelect(df, exprs) ==
    LET cs == [i \in 1..Len(exprs) |-> exprs[i].column]
    IN  IF Missing(df, cs) # {}
        THEN Failed(PolarsError("ColumnNotFound", cs[Min(Missing(df, cs))]))
        ELSE Ok(DataFrame(
                 [i \in 1..Len(exprs) |->
                     Column(exprs[i].alias, df.cols[IndexOf(df, cs[i])].dtype)],
                 [r \in 1..Len(df.rows) |->
                     [i \in 1..Len(exprs) |-> df.rows[r][IndexOf(df, cs[i])]]]))

RECURSIVE Flatten(_)
Flatten(ss) == IF Len(ss) = 0 THEN <<>> ELSE Head(ss) \o Flatten(Tail(ss))

\* Vertical concatenation: the tables are stacked in order; a table whose
\* columns (names and data types) differ from the first one's cannot be
\* appended and is the engine's SchemaMismatch.
EvalConcat(dfs) ==
    IF \E i \in 1..Len(dfs) : dfs[i].cols # dfs[1].cols
    THEN Failed(PolarsError("SchemaMismatch", ""))
    ELSE Ok(DataFrame(dfs[1].cols,
                      Flatten([i \in 1..Len(dfs) |-> dfs[i].rows])))

\* The key of row r under the columns cs.
KeyOf(df, cs, r) == [i \in 1..Len(cs) |-> df.rows[r][IndexOf(df, cs[i])]]

\* The rows a keep strategy retains: of the rows sharing a key, the first
\* one (First) or the last one (Last), in table order.
KeptRows(df, subset, keep) ==
    {r \in 1..Len(df.rows) :
        \A q \in 1..Len(df.rows) :
            KeyOf(df, subset, q) = KeyOf(df, subset, r) =>
                IF keep = "First" THEN q >= r ELSE q <= r}

RECURSIVE SetToSeq(_)
SetToSeq(S) == IF S = {} THEN <<>> ELSE <<Min(S)>> \o SetToSeq(S \ {Min(S)})

\* unique(subset, keep) without maintain_order: the retained rows, in an
\* order the engine does not fix.
EvalUnique(df, subset, keep) ==
    IF Missing(df, subset) # {}
    THEN {Failed(PolarsError("ColumnNotFound", subset[Min(Missing(df, subset))]))}
    ELSE LET kept == SetToSeq(KeptRows(df, subset, keep))
         IN  {Ok(DataFrame(df.cols, rows)) :
                 rows \in Orderings([i \in 1..Len(kept) |-> df.rows[kept[i]]])}

\* groupby(by).agg([count()]): one row per distinct key, the key columns
\* named by their aliases followed by the number of rows of the group, in an
\* order the engine does not fix.
EvalGroupBy(df, by, aggs) ==
    LET cs == [i \in 1..Len(by) |-> by[i].column]
    IN  IF Missing(df, cs) # {}
        THEN {Failed(PolarsError("ColumnNotFound", cs[Min(Missing(df, cs))]))}
        ELSE LET firsts == SetToSeq(KeptRows(df, cs, "First"))
                 size(r) == Cardinality({q \in 1..Len(df.rows) :
                                 KeyOf(df, cs, q) = KeyOf(df, cs, r)})
                 groups == [i \in 1..Len(firsts) |->
                               KeyOf(df, cs, firsts[i])
                                   \o [a \in 1..Len(aggs) |-> size(firsts[i])]]
                 cols == [i \in 1..Len(by) |->
                             Column(by[i].alias, df.cols[IndexOf(df, cs[i])].dtype)]
                         \o [a \in 1..Len(aggs) |-> Column(aggs[a].alias, "UInt32")]
             IN  {Ok(DataFrame(cols, rows)) : rows \in Orderings(groups)}

\* ------------------------------------------------ LazyFrame::collect
\* The set of results materialising a plan can give.  A node over a failed
\* input fails with that input's error; a union whose inputs run in
\* parallel fails with the error of any failed input.
RECURSIVE collect(_)
collect(lf) ==
    CASE lf.op = "scan" -> {Ok(lf.df)}
      [] lf.op = "select" ->
            {IF r.ok THEN EvalSelect(r.df, lf.exprs) ELSE r : r \in collect(lf.input)}
      [] lf.op = "unique" ->
            UNION {IF r.ok THEN EvalUnique(r.df, lf.subset, lf.keep) ELSE {r} :
                      r \in collect(lf.input)}
      [] lf.op = "groupby" ->
            UNION {IF r.ok THEN EvalGroupBy(r.df, lf.by, lf.aggs) ELSE {r} :
                      r \in collect(lf.input)}
      [] lf.op = "concat" ->
            LET n == Len(lf.inputs)
                outs == [i \in 1..n |-> collect(lf.inputs[i])]
                picks == {f \in [1..n -> UNION {outs[i] : i \in 1..n}] :
                             \A i \in 1..n : f[i] \in outs[i]}
            IN  UNION {IF \A i \in 1..n : f[i].ok
                       THEN {EvalConcat([i \in 1..n |-> f[i].df])}
                       ELSE {f[i] : i \in {j \in 1..n : ~f[j].ok}} :
                          f \in picks}

\* ------------------------------------------------------------ GraphFrame
GraphFrame(vertices, edges) == [vertices |-> vertices, edges |-> edges]

\* A plan that was moved out of its owner.
Moved == [op |-> "moved"]

NoGraph == GraphFrame(Moved, Moved)

\* GraphFrameError: MissingColumn(Id | Src | Dst) or FromPolars(cause).
MissingColumn(c) == [variant |-> "MissingColumn", column |-> c, cause |-> NoError]

FromPolars(e) == [variant |-> "FromPolars", column |-> "", cause |-> e]

NoGraphError == [variant |-> "none", column |-> "", cause |-> NoError]

\* Result<GraphFrame>
OkGraph(g) == [tag |-> "Ok", graph |-> g, err |-> NoGraphError]

ErrGraph(e) == [tag |-> "Err", graph |-> NoGraph, err |-> e]

NoResult == [tag |-> "None", graph |-> NoGraph, err |-> NoGraphError]

\* new with the edge columns checked before the vertex column.
new_EdgesFirst(vertices, edges) ==
    IF ~contains(get_column_names(edges), SRC)
    THEN ErrGraph(MissingColumn("Src"))
    ELSE IF ~contains(get_column_names(edges), DST)
    THEN ErrGraph(MissingColumn("Dst"))
    ELSE IF ~contains(get_column_names(vertices), ID)
    THEN ErrGraph(MissingColumn("Id"))
    ELSE OkGraph(GraphFrame(lazy(vertices), lazy(edges)))

\* new with dst checked before src.
new_DstFirst(vertices, edges) ==
    IF ~contains(get_column_names(vertices), ID)
    THEN ErrGraph(MissingColumn("Id"))
    ELSE IF ~contains(get_column_names(edges), DST)
    THEN ErrGraph(MissingColumn("Dst"))
    ELSE IF ~contains(get_column_names(edges), SRC)
    THEN ErrGraph(MissingColumn("Src"))
    ELSE OkGraph(GraphFrame(lazy(vertices), lazy(edges)))

\* new with the two tables stored in each other's field.
new_Swapped(vertices, edges) ==
    IF ~contains(get_column_names(vertices), ID)
    THEN ErrGraph(MissingColumn("Id"))
    ELSE IF ~contains(get_column_names(edges), SRC)
    THEN ErrGraph(MissingColumn("Src"))
    ELSE IF ~contains(get_column_names(edges), DST)
    THEN ErrGraph(MissingColumn("Dst"))
    ELSE OkGraph(GraphFrame(lazy(edges), lazy(vertices)))

\* GraphFrame::new
new(vertices, edges) ==
    IF ~contains(get_column_names(vertices), ID)
    THEN ErrGraph(MissingColumn("Id"))
    ELSE IF ~contains(get_column_names(edges), SRC)
    THEN ErrGraph(MissingColumn("Src"))
    ELSE IF ~contains(get_column_names(edges), DST)
    THEN ErrGraph(MissingColumn("Dst"))
    ELSE OkGraph(GraphFrame(lazy(vertices), lazy(edges)))

\* from_edges without the deduplication.
from_edges_NoUnique(edges) ==
    LET srcs == select(lazy(edges), <<col_alias(SRC, ID)>>)
        dsts == select(lazy(edges), <<col_alias(DST, ID)>>)
        both == concat(<<srcs, dsts>>, FALSE, TRUE)
    IN  IF ~both.ok
        THEN {ErrGraph(FromPolars(both.err))}
        ELSE {IF vertices.ok
              THEN new(vertices.df, edges)
              ELSE ErrGraph(FromPolars(vertices.err)) :
                 vertices \in collect(both.lf)}

\* from_edges deriving the vertices from the src column alone.
from_edges_SrcOnly(edges) ==
    LET srcs == select(lazy(edges), <<col_alias(SRC, ID)>>)
        both == concat(<<srcs>>, FALSE, TRUE)
    IN  IF ~both.ok
        THEN {ErrGraph(FromPolars(both.err))}
        ELSE LET vertices_lf == unique(both.lf, <<"id">>, "First")
             IN  {IF vertices.ok
                  THEN new(vertices.df, edges)
                  ELSE ErrGraph(FromPolars(vertices.err)) :
                     vertices \in collect(vertices_lf)}

\* from_edges taking a derived vertex table without rows for a failure.
from_edges_RejectEmpty(edges) ==
    LET srcs == select(lazy(edges), <<col_alias(SRC, ID)>>)
        dsts == select(lazy(edges), <<col_alias(DST, ID)>>)
        both == concat(<<srcs, dsts>>, FALSE, TRUE)
    IN  IF ~both.ok
        THEN {ErrGraph(FromPolars(both.err))}
        ELSE LET vertices_lf == unique(both.lf, <<"id">>, "First")
             IN  {IF vertices.ok /\ Len(vertices.df.rows) > 0
                  THEN new(vertices.df, edges)
                  ELSE ErrGraph(FromPolars(
                           IF vertices.ok THEN PolarsError("NoData", "")
                           ELSE vertices.err)) :
                     vertices \in collect(vertices_lf)}

\* GraphFrame::from_edges: the results the call can give (the derived vertex
\* table comes from the engine in an order it does not fix).  Each `?` turns
\* the engine's error into FromPolars and returns it.
from_edges(edges) ==
    LET srcs == select(lazy(edges), <<col_alias(SRC, ID)>>)
        dsts == select(lazy(edges), <<col_alias(DST, ID)>>)
        both == concat(<<srcs, dsts>>, FALSE, TRUE)
    IN  IF ~both.ok
        THEN {ErrGraph(FromPolars(both.err))}
        ELSE LET vertices_lf == unique(both.lf, <<"id">>, "First")
             IN  {IF vertices.ok
                  THEN new(vertices.df, edges)
                  ELSE ErrGraph(FromPolars(vertices.err)) :
                     vertices \in collect(vertices_lf)}

\* out_degrees grouping by the destination.
out_degrees_ByDst(self) ==
    groupby_agg(self.edges, <<col_alias(DST, ID)>>, <<count_alias("out_degree")>>)

\* GraphFrame::out_degrees
out_degrees(self) ==
    groupby_agg(self.edges, <<col_alias(SRC, ID)>>, <<count_alias("out_degree")>>)

\* in_degrees with its key renamed to id, as out_degrees does.
in_degrees_Renamed(self) ==
    groupby_agg(self.edges, <<col_alias(DST, ID)>>, <<count_alias("in_degree")>>)

\* GraphFrame::in_degrees
in_degrees(self) ==
    groupby_agg(self.edges, <<col(DST)>>, <<count_alias("in_degree")>>)

\* ------------------------------------------------ Display for GraphFrame
\* What the formatter receives: literal text, a rendered table, or an
\* engine error's description.
Text(t) == [kind |-> "text", text |-> t, df |-> EmptyFrame, err |-> NoError]

TableText(df) == [kind |-> "table", text |-> "", df |-> df, err |-> NoError]

ErrorText(e) == [kind |-> "error", text |-> "", df |-> EmptyFrame, err |-> e]

\* The outcome of one fmt call: its return value, what was written, and the
\* plans it materialised, in order.
Rendered(ret, written, collected) ==
    [ret |-> ret, written |-> written, collected |-> collected]

NotRendered == Rendered("None", <<>>, <<>>)

\* fmt returning an error, and writing nothing, when a plan fails.
fmt_PropagatesError(self) ==
    UNION {
        IF ~vertices.ok
        THEN {Rendered("Err", <<>>, <<"vertices">>)}
        ELSE {IF ~edges.ok
              THEN Rendered("Err", <<>>, <<"vertices", "edges">>)
              ELSE Rendered("Ok",
                            <<Text("Vertices: "), TableText(vertices.df),
                              Text("\nEdges: "), TableText(edges.df)>>,
                            <<"vertices", "edges">>) :
                 edges \in collect(self.edges)} :
           vertices \in collect(self.vertices)}

\* <GraphFrame as Display>::fmt: the outcomes the call can have.
fmt(self) ==
    UNION {
        IF ~vertices.ok
        THEN {Rendered("Ok", <<ErrorText(vertices.err)>>, <<"vertices">>)}
        ELSE {IF ~edges.ok
              THEN Rendered("Ok", <<ErrorText(edges.err)>>, <<"vertices", "edges">>)
              ELSE Rendered("Ok",
                            <<Text("Vertices: "), TableText(vertices.df),
                              Text("\nEdges: "), TableText(edges.df)>>,
                            <<"vertices", "edges">>) :
                 edges \in collect(self.edges)} :
           vertices \in collect(self.vertices)}

\* ----------------------------------------------------------------- state
VARIABLES
    pc,      \* "start", "built", "failed", "lazy", "collected", "shown"
    call,    \* the constructor that was called: "new" or "from_edges"
    vIn,     \* the vertex table passed to new
    eIn,     \* the edge table passed to the constructor
    res,     \* the Result<GraphFrame> the constructor returned
    graph,   \* the GraphFrame the caller owns (taken out of an Ok result)
    lf,      \* the LazyFrame a degree query returned, with the query's name
    out,     \* the result of materialising lf
    shown    \* the outcome of rendering the GraphFrame

vars == <<pc, call, vIn, eIn, res, graph, lf, out, shown>>

NoQuery == [query |-> "none", plan |-> Moved]

NotCollected == [ok |-> FALSE, df |-> EmptyFrame, err |-> NoError]

Init ==
    /\ pc = "start"
    /\ call = "none"
    /\ vIn = EmptyFrame
    /\ eIn = EmptyFrame
    /\ res = NoResult
    /\ graph = NoGraph
    /\ lf = NoQuery
    /\ out = NotCollected
    /\ shown = NotRendered

\* A caller calls GraphFrame::new(vertices, edges).
New ==
    /\ pc = "start"
    /\ \E vertices \in VertexTables, edges \in EdgeTables :
          /\ call' = "new"
          /\ vIn' = vertices
          /\ eIn' = edges
          /\ res' = new(vertices, edges)
    /\ graph' = res'.graph
    /\ pc' = IF res'.tag = "Ok" THEN "built" ELSE "failed"
    /\ UNCHANGED <<lf, out, shown>>

\* A caller calls GraphFrame::from_edges(edges).
FromEdges ==
    /\ pc = "start"
    /\ \E edges \in EdgeTables :
          /\ call' = "from_edges"
          /\ eIn' = edges
          /\ res' \in from_edges(edges)
    /\ graph' = res'.graph
    /\ pc' = IF res'.tag = "Ok" THEN "built" ELSE "failed"
    /\ UNCHANGED <<vIn, lf, out, shown>>

\* The owner of a GraphFrame replaces one of its public plans by a
\* projection of it: graph.vertices = graph.vertices.select([col(MSG)]).
Project ==
    /\ pc = "built"
    /\ \/ /\ graph.vertices.op = "scan"
          /\ graph' = [graph EXCEPT !.vertices = select(@, <<col(MSG)>>)]
       \/ /\ graph.edges.op = "scan"
          /\ graph' = [graph EXCEPT !.edges = select(@, <<col(MSG)>>)]
    /\ UNCHANGED <<pc, call, vIn, eIn, res, lf, out, shown>>

\* What a degree call leaves behind: it consumes the GraphFrame, so the
\* returned plan is all that is left of it and of the tables it was built
\* from.
Consumed ==
    /\ graph' = NoGraph
    /\ res' = NoResult
    /\ call' = "none"
    /\ vIn' = EmptyFrame
    /\ eIn' = EmptyFrame

\* A caller calls out_degrees().
OutDegrees ==
    /\ pc = "built"
    /\ lf' = [query |-> "out_degrees", plan |-> out_degrees(graph)]
    /\ Consumed
    /\ pc' = "lazy"
    /\ UNCHANGED <<out, shown>>

\* A caller calls in_degrees().
InDegrees ==
    /\ pc = "built"
    /\ lf' = [query |-> "in_degrees", plan |-> in_degrees(graph)]
    /\ Consumed
    /\ pc' = "lazy"
    /\ UNCHANGED <<out, shown>>

\* The caller materialises the degree query.
Collect ==
    /\ pc = "lazy"
    /\ out' \in collect(lf.plan)
    /\ pc' = "collected"
    /\ UNCHANGED <<call, vIn, eIn, res, graph, lf, shown>>

\* The GraphFrame is rendered for display (it is borrowed, not consumed).
Fmt ==
    /\ pc = "built"
    /\ shown' \in fmt(graph)
    /\ pc' = "shown"
    /\ UNCHANGED <<call, vIn, eIn, res, graph, lf, out>>

Next == New \/ FromEdges \/ Project \/ OutDegrees \/ InDegrees \/ Collect \/ Fmt

Spec == Init /\ [][Next]_vars

\* ------------------------------------------------------------ properties
HasColumn(df, c) == contains(get_column_names(df), c)

DtypeOf(df, c) == df.cols[IndexOf(df, c)].dtype

\* The edge table has both endpoint columns.
ValidEdges(df) == HasColumn(df, SRC) /\ HasColumn(df, DST)

\* No value occurs twice in the sequence.
NoDuplicates(s) == \A i, j \in 1..Len(s) : s[i] = s[j] => i = j

RECURSIVE Sum(_)
Sum(s) == IF Len(s) = 0 THEN 0 ELSE Head(s) + Sum(Tail(s))

\* C1: new on a vertex table without `id` returns MissingColumn(Id), whatever
\* the edge table is, also when the edge table lacks src, dst or both.
C1_IdCheckedFirst ==
    (call = "new" /\ ~HasColumn(vIn, ID)) => res = ErrGraph(MissingColumn("Id"))

C1_Witness ==
    /\ call = "new"
    /\ ~HasColumn(vIn, ID)
    /\ ~HasColumn(eIn, SRC)
    /\ ~HasColumn(eIn, DST)
    /\ res = ErrGraph(MissingColumn("Id"))

\* C2: new on a vertex table with `id`: an edge table without src gives
\* MissingColumn(Src) whether or not it has dst; one with src and without
\* dst gives MissingColumn(Dst).
C2_SrcThenDst ==
    (call = "new" /\ HasColumn(vIn, ID)) =>
        /\ ~HasColumn(eIn, SRC) => res = ErrGraph(MissingColumn("Src"))
        /\ (HasColumn(eIn, SRC) /\ ~HasColumn(eIn, DST)) =>
               res = ErrGraph(MissingColumn("Dst"))

C2_Witness ==
    /\ call = "new"
    /\ HasColumn(vIn, ID)
    /\ ~HasColumn(eIn, SRC)
    /\ ~HasColumn(eIn, DST)
    /\ res = ErrGraph(MissingColumn("Src"))

\* What C3 says of the GraphFrame from_edges returned: its vertex table has
\* an id column holding exactly the src and dst values of the edge table,
\* each once.
DerivedVertices ==
    /\ res.tag = "Ok"
    /\ \A v \in collect(res.graph.vertices) :
          /\ v.ok
          /\ HasColumn(v.df, ID)
          /\ Range(ColumnValues(v.df, ID)) =
                 Range(ColumnValues(eIn, SRC)) \cup Range(ColumnValues(eIn, DST))
          /\ NoDuplicates(ColumnValues(v.df, ID))

\* C3 as stated: from_edges succeeds on every edge table with src and dst,
\* and the vertex ids are the union of the src and dst values, without
\* duplicates.
C3_AsStated ==
    (call = "from_edges" /\ ValidEdges(eIn)) => DerivedVertices

\* C3 as amended: the same, for the edge tables whose src and dst columns
\* have one data type.
C3_DerivedVertices ==
    (call = "from_edges" /\ ValidEdges(eIn)
        /\ DtypeOf(eIn, SRC) = DtypeOf(eIn, DST)) => DerivedVertices

C3_Witness ==
    /\ call = "from_edges"
    /\ ValidEdges(eIn)
    /\ res.tag = "Ok"
    /\ Len(eIn.rows) = 2
    /\ eIn.rows[1] = eIn.rows[2]
    /\ eIn.rows[1][1] # eIn.rows[1][2]
    /\ Len(res.graph.vertices.df.rows) = 2

\* C4: from_edges on an edge table without src or without dst returns the
\* MissingColumn error new gives for that table: Src if src is absent,
\* otherwise Dst.
C4_SameMissingColumn ==
    (call = "from_edges" /\ ~ValidEdges(eIn)) =>
        res = ErrGraph(MissingColumn(IF ~HasColumn(eIn, SRC) THEN "Src" ELSE "Dst"))

\* The degree table `out` has the columns <<key, degree>> and one row per
\* distinct value of column c of the edge table, holding the number of edge
\* rows with that value.
DegreesOf(edges, c, key, degree) ==
    LET ends == ColumnValues(edges, c)
    IN  /\ out.ok
        /\ get_column_names(out.df) = <<key, degree>>
        /\ {row[1] : row \in Range(out.df.rows)} = Range(ends)
        /\ Len(out.df.rows) = Cardinality(Range(ends))
        /\ \A row \in Range(out.df.rows) : row[2] = Count(ends, row[1])

\* The edges (A,B), (A,C), (B,C) of the worked example, with A, B, C = 1, 2, 3.
ExampleRows == << <<1, 2>>, <<1, 3>>, <<2, 3>> >>

\* The query was made on a GraphFrame as the constructors build it: its
\* edge plan scans a table with src and dst.
OnValidGraph(query) ==
    /\ pc = "collected"
    /\ lf.query = query
    /\ lf.plan.input.op = "scan"
    /\ ValidEdges(lf.plan.input.df)

C7_RoundTrip ==
    (call = "new" /\ HasColumn(vIn, ID) /\ ValidEdges(eIn)) =>
        /\ res.tag = "Ok"
        /\ collect(res.graph.vertices) = {Ok(vIn)}
        /\ collect(res.graph.edges) = {Ok(eIn)}

\* An edge whose endpoints are no vertex ids, and of two data types.
C7_Witness ==
    /\ call = "new"
    /\ res.tag = "Ok"
    /\ vIn.rows = << <<1>> >>
    /\ eIn.rows = << <<2, 3>>, <<2, 3>> >>
    /\ DtypeOf(eIn, SRC) # DtypeOf(eIn, DST)
    /\ collect(res.graph.edges) = {Ok(eIn)}

\* What C8 says of the GraphFrame from_edges returned: both its tables have
\* no rows.
TrivialGraph ==
    /\ res.tag = "Ok"
    /\ \A v \in collect(res.graph.vertices) : v.ok /\ Len(v.df.rows) = 0
    /\ \A e \in collect(res.graph.edges) : e.ok /\ Len(e.df.rows) = 0

\* C8 as stated: from_edges on an edge table with src and dst and no rows
\* succeeds, with no vertex rows and no edge rows.
C8_AsStated ==
    (call = "from_edges" /\ ValidEdges(eIn) /\ Len(eIn.rows) = 0) => TrivialGraph

\* C8 as amended: the same, when src and dst have one data type.
C8_EmptyEdges ==
    (call = "from_edges" /\ ValidEdges(eIn) /\ Len(eIn.rows) = 0
        /\ DtypeOf(eIn, SRC) = DtypeOf(eIn, DST)) => TrivialGraph

C8_Witness ==
    /\ call = "from_edges"
    /\ ValidEdges(eIn)
    /\ Len(eIn.rows) = 0
    /\ res.tag = "Ok"
    /\ HasColumn(res.graph.vertices.df, ID)
    /\ Len(res.graph.vertices.df.rows) = 0

\* What rendering `self` must have given: the vertex plan is materialised
\* first; if it fails, only its error is written and the edge plan is left
\* alone; if only the edge plan fails, only its error is written; the call
\* returns Ok either way.
RenderedAs(self, r) ==
    \E v \in collect(self.vertices), e \in collect(self.edges) :
        /\ r.ret = "Ok"
        /\ ~v.ok => /\ r.written = <<ErrorText(v.err)>>
                    /\ r.collected = <<"vertices">>
        /\ (v.ok /\ ~e.ok) => /\ r.written = <<ErrorText(e.err)>>
                              /\ r.collected = <<"vertices", "edges">>
        /\ (v.ok /\ e.ok) => /\ r.written = <<Text("Vertices: "), TableText(v.df),
                                             Text("\nEdges: "), TableText(e.df)>>
                             /\ r.collected = <<"vertices", "edges">>

\* C9: rendering materialises the vertex plan, then the edge plan, writes
\* only the first failure's description when one fails, returns Ok in every
\* case, and leaves the GraphFrame's plans as they were.
C9_Display ==
    [][(pc = "built" /\ pc' = "shown") =>
          (graph' = graph /\ RenderedAs(graph, shown'))]_vars

\* The vertex plan fails and the edge plan would not have.
C9_Witness ==
    /\ pc = "shown"
    /\ graph.vertices.op = "select"
    /\ graph.edges.op = "scan"
    /\ shown.ret = "Ok"
    /\ shown.collected = <<"vertices">>
    /\ Len(shown.written) = 1
    /\ shown.written[1].kind = "error"

\* C10: for a GraphFrame as from_edges returned it, the out-degrees and the
\* in-degrees both sum to the number of edge rows, every key of either is an
\* id of the derived vertex table, and every degree is at least 1.
C10_DegreeSums ==
    (call = "from_edges" /\ pc = "built" /\ graph = res.graph) =>
        \A v \in collect(graph.vertices) :
            /\ v.ok
            /\ \A d \in collect(out_degrees(graph)) \cup collect(in_degrees(graph)) :
                  /\ d.ok
                  /\ Sum([r \in 1..Len(d.df.rows) |-> d.df.rows[r][2]]) = Len(eIn.rows)
                  /\ \A row \in Range(d.df.rows) :
                        /\ row[1] \in Range(ColumnValues(v.df, ID))
                        /\ row[2] >= 1

C10_Witness ==
    /\ call = "from_edges"
    /\ pc = "built"
    /\ graph = res.graph
    /\ eIn.rows = << <<1, 2>>, <<3, 2>> >>
    /\ \E d \in collect(in_degrees(graph)) : d.df.rows = << <<2, 2>> >>

====
